---- MODULE Spec2Model ----
(***************************************************************************)
(* A model of the superkeg flow-measurement and pour-event pipeline:       *)
(*   flow_meter.py              FlowMeter, KegFlowTracker                   *)
(*   flow_meter_integration.py  MultiTapFlowSystem                          *)
(*   keg_app.py / app.py        the keg store and the /api/flow endpoint    *)
(*                                                                         *)
(* Volumes are integers in millilitres, times are integers in seconds.     *)
(* Each Python thread (GPIO callback thread, pour monitor thread, Flask    *)
(* request) is a process whose position is a pc value; a step is one or a  *)
(* few source statements, so that the interleavings the interpreter allows *)
(* between the threads are behaviours of the model.                        *)
(***************************************************************************)
EXTENDS Integers, Sequences, FiniteSets, TLC

\* ------------------------------------------------------------------ bounds
\* Edges delivered to all flow meters together.
MaxPulses == 2
\* The clock stops at MaxTime.
MaxTime == 12
\* Requests the external store clients make.
MaxClientCalls == 2
\* Raw edges delivered to the flow meter on the bench.
MaxEdges == 3
\* Calls of calibrate_tap, reset_tap_volume and setup_tap on the bench.
MaxCalls == 2
\* Steps of the bench clock.
MaxTicks == 2
\* Tap requests the web workers serve together.
MaxTapRequests == 2
\* Volume a progress entry accumulates, in ml.
MaxProgressVolume == 25

\* ------------------------------------------------------- program constants
\* KegFlowTracker.pour_timeout
PourTimeout == 5
\* pour_threshold_ml passed by setup_tap
PourThresholdMl == 50

\* FlowMeter._pulse_detected: the debounce interval, 0.001 s, in ms
Debounce == 1
\* FlowMeter.flow_rate_window, 10 s, in ms
FlowRateWindow == 10 * 1000

\* get_next_available_tap_position: the highest tap position
MaxTapPosition == 4
\* VolumeTracker.get_active_pours: seconds without update after which an entry is stale
VolumeTrackerWindow == 5
\* MultiTapFlowSystem.get_active_pours: the same
FlowSystemWindow == 10

\* Seconds that pass in one step of the clock: just more than the pour timeout,
\* so that a session is either fresh or timed out.
TickSeconds == PourTimeout + 1

Taps == {1, 2}
KegIds == {1, 2}
\* An id no row of the kegs table has.
MissingKegId == Cardinality(KegIds) + 1
\* tap_configs given to MultiTapFlowSystem: pulses_per_liter of each tap.
\* Tap 1 has 40 pulses per litre: one pulse is 25 ml, two pulses are the
\* threshold. The other taps have 20: one pulse is 50 ml, a session that
\* commits, so that two taps can have sessions within MaxPulses.
TapConfigs == [t \in Taps |-> [tap_number |-> t,
                               pulses_per_liter |-> IF t = 1 THEN 40 ELSE 20]]
\* Initial volume_remaining of the kegs, in ml.
InitialVolume == [k \in KegIds |-> IF k = 1 THEN 40 ELSE 200]
\* volume_dispensed values an external client sends, in ml.
ClientVolumes == {30}
\* The lookup found no row.
NoRow == -1

VARIABLES
    now,            \* time.time(), seconds
    kegs,           \* kegs table: id -> [status, tap_position, volume_remaining]
    pour_events,    \* pour_events table, in insertion order
    running,        \* MultiTapFlowSystem.running
    flow_trackers,  \* keys of MultiTapFlowSystem.flow_trackers
    active_pours,   \* MultiTapFlowSystem.active_pours: keg id -> entry
    flow_meter,     \* per tap: the FlowMeter object
    tracker,        \* per tap: the KegFlowTracker object
    gpio,           \* per tap: position of the edge callback thread
    monitor,        \* per tap: position and locals of the pour monitor thread
    client,         \* an external client of the keg store
    last_call,      \* the last coordinator call and how it ended
    commit_start,   \* per tap: the store as the monitor saw it when it decided to commit
    stopped_active, \* per tap: stop_tracking was called while a session was Active
    clock,          \* time.time() of the bench, in ms
    meter,          \* the FlowMeter on the bench, with its flow rate fields
    calibrating,    \* position and argument of the calibrate_tap call in progress
    config_file,    \* pulses_per_liter in the tap's calibration file, or NoFile
    bench_log,      \* what the bench has seen: edges, callbacks, calls, ticks, the last operation
    tap_requests,   \* per web worker: the tap or untap request it is serving
    volume_tracker, \* the VolumeTracker object and the position of its update thread
    latest_volume_data, \* app.latest_volume_data, or NoData, and when it was received
    poll_response,  \* what /api/active-pours served last, and whether that was an
                    \* odd-numbered request
    reports         \* per progress object: what get_active_pours returned last, and for
                    \* each keg how often its present entry was listed as completed

\* The flow meter on the bench
bench == <<clock, meter, calibrating, config_file, bench_log>>

\* The multi-tap system and the keg store
system == <<now, kegs, pour_events, running, flow_trackers, active_pours,
            flow_meter, tracker, gpio, monitor, client, last_call,
            commit_start, stopped_active>>

\* The web application's requests and the progress it publishes
web == <<tap_requests, volume_tracker, latest_volume_data, poll_response, reports>>

vars == <<system, bench, web>>

store == <<kegs, pour_events>>

\* ---------------------------------------------------------------- helpers
Max(a, b) == IF a > b THEN a ELSE b

\* FlowMeter._pulse_detected: volume_total = pulse_count / pulses_per_liter
VolumeOf(pulse_count, pulses_per_liter) == (pulse_count * 1000) \div pulses_per_liter

\* FlowMeter.__init__
NewFlowMeter(ppl) ==
    [pulses_per_liter |-> ppl, pulse_count |-> 0, volume_total |-> 0,
     is_monitoring |-> FALSE, start_time |-> 0, subscriptions |-> 0]

\* KegFlowTracker.__init__ (last_flow_time is first set by start_tracking)
NewTracker(keg_id) ==
    [keg_id |-> keg_id, last_logged_volume |-> 0, pour_start_time |-> -1,
     is_pouring |-> FALSE, last_flow_time |-> -1, stop_monitoring |-> FALSE]

\* No further monitor thread of the tracker is alive.
NoThread == [pc |-> "none", volume_poured |-> 0]

\* The monitor thread start_tracking has bound to self.monitor_thread, and in
\* "second" one more thread of the same tracker that a later start_tracking
\* has created.
IdleMonitor == [pc |-> "none", volume_poured |-> 0, keg |-> NoRow, second |-> NoThread]
IdleClient == [pc |-> "idle", op |-> "none", keg_id |-> 0, volume |-> 0,
               keg |-> NoRow, calls |-> 0]
NoCommit == [volume_remaining |-> 0, events |-> 0, tapped |-> FALSE]

\* ------------------------------------------------------------ the keg store
\* The query without its filter on the status: any row of that id is loaded.
QueryKegOfAnyStatus(keg_id) ==
    IF keg_id \in DOMAIN kegs
    THEN kegs[keg_id].volume_remaining
    ELSE NoRow

\* session.query(Keg).filter(Keg.id == keg_id, Keg.status == TAPPED).first():
\* the row's volume_remaining as loaded, or NoRow.
QueryTappedKeg(keg_id) ==
    IF keg_id \in DOMAIN kegs /\ kegs[keg_id].status = "tapped"
    THEN kegs[keg_id].volume_remaining
    ELSE NoRow

\* The subtraction without its floor
UnclampedSubtract(volume_remaining, volume_dispensed) ==
    volume_remaining - volume_dispensed

\* max(0, keg.volume_remaining - volume_dispensed)
ClampedSubtract(volume_remaining, volume_dispensed) ==
    Max(0, volume_remaining - volume_dispensed)

\* The update without its row: every keg gets the value.
UpdateEveryKegVolume(keg_id, value) ==
    [k \in DOMAIN kegs |-> [kegs[k] EXCEPT !.volume_remaining = value]]

\* session.commit() of a loaded row whose volume_remaining was assigned
UpdateKegVolume(keg_id, value) ==
    [kegs EXCEPT ![keg_id].volume_remaining = value]

\* PourEvent(keg_id=..., volume_dispensed=...); the timestamp is not modelled
InsertPourEvent(keg_id, volume) ==
    Append(pour_events, [keg_id |-> keg_id, volume_dispensed |-> volume])

\* The names flow_meter_integration imports from keg_app do not include
\* PourEvent, so _log_pour_event_db raises NameError, which it catches and logs.
PourEventImported == FALSE

\* The mapping without its filter on the status: any keg that names the position.
KegsOfAnyStatusAt(tap_number) ==
    {k \in DOMAIN kegs : kegs[k].tap_position = tap_number}

\* get_tapped_kegs()[tap_number]
TappedKegsAt(tap_number) ==
    {k \in DOMAIN kegs : kegs[k].status = "tapped" /\ kegs[k].tap_position = tap_number}

\* ---------------------------------------------------------------- FlowMeter
\* start_monitoring without its "already monitoring" return
StartMonitoringUnguarded(m) ==
    [m EXCEPT !.is_monitoring = TRUE, !.start_time = now,
              !.subscriptions = @ + 1]

\* FlowMeter.start_monitoring
StartMonitoring(m) ==
    IF m.is_monitoring
    THEN m
    ELSE [m EXCEPT !.is_monitoring = TRUE, !.start_time = now,
                   !.subscriptions = @ + 1]

\* FlowMeter.__init__ binds the instance attribute stop_monitoring to a
\* threading.Event, which hides the method of that name: a call of
\* flow_meter.stop_monitoring() calls the Event object and raises TypeError.
StopMonitoringCallable == FALSE

\* The body of the method FlowMeter.stop_monitoring
StopMonitoringBody(m) ==
    IF ~m.is_monitoring
    THEN m
    ELSE [m EXCEPT !.is_monitoring = FALSE, !.subscriptions = 0]

\* FlowMeter.cleanup: the meter afterwards and the exception that leaves it
Cleanup(m) ==
    IF StopMonitoringCallable
    THEN [meter |-> StopMonitoringBody(m), raised |-> "none"]
    ELSE [meter |-> m, raised |-> "TypeError"]

\* ------------------------------------------------- the meter on the bench
\* The tap whose flow meter stands on the bench.
BenchTap == 1
\* known_volume_liters values calibrate_tap is called with, in ml.
KnownVolumes == {0, 20, 473}
\* Steps of the bench clock, in ms: the debounce interval, and just more
\* than the flow rate window.
ClockSteps == {Debounce, FlowRateWindow + Debounce}
\* No calibration file exists.
NoFile == 0

\* FlowMeter.__init__, with the fields of the flow rate estimate
NewBenchMeter(ppl) ==
    [pulses_per_liter |-> ppl, pulse_count |-> 0, volume_total |-> 0,
     flow_rate |-> 0, last_pulse_time |-> 0, pulse_times |-> <<>>]

\* The setup without the file: the meter keeps the factor it was built with.
LoadNoCalibration(m) == m

\* FlowMeter.load_calibration: pulses_per_liter of the file, when it exists
LoadCalibration(m) ==
    IF config_file = NoFile THEN m ELSE [m EXCEPT !.pulses_per_liter = config_file]

NotCalibrating == [pc |-> "idle", known_volume |-> 0]

InitBench ==
    /\ clock = Debounce
    /\ meter = NewBenchMeter(TapConfigs[BenchTap].pulses_per_liter)
    /\ calibrating = NotCalibrating
    /\ config_file = NoFile
    /\ bench_log = [edges |-> 0, callbacks |-> 0, calls |-> 0, ticks |-> 0,
                    op |-> "none", result |-> "none"]

\* ------------------------------------------------ the web application's state
\* Flask serves each request on a thread of its own.
Workers == {1, 2}
\* The worker that serves the requests when they come one at a time.
RetapWorker == CHOOSE w \in Workers : TRUE
\* range(1, 5) of get_next_available_tap_position
TapPositions == 1 .. MaxTapPosition
\* get_next_available_tap_position found no free position (None)
NoPosition == 0
\* The two objects that keep progress entries.
ProgressSides == {"flow_system", "volume_tracker"}
\* No entry: the empty dict
NoEntries == [k \in {} |-> 0]
\* Both lists of a progress payload are empty.
NoPours == [active_pours |-> {}, completed_pours |-> {}]
\* app.latest_volume_data was never assigned
NoData == [active_pours |-> {}, completed_pours |-> {}, assigned |-> FALSE,
           received |-> 0]

IdleRequest == [pc |-> "idle", route |-> "none", keg_id |-> 0,
                tap_position |-> NoPosition, result |-> "none", calls |-> 0]

\* VolumeTracker.__init__ followed by start()
NewVolumeTracker == [active_pours |-> NoEntries, running |-> TRUE,
                     pc |-> "sleep", data |-> NoPours]

InitWeb ==
    /\ tap_requests = [w \in Workers |-> IdleRequest]
    /\ volume_tracker = NewVolumeTracker
    /\ latest_volume_data = NoData
    /\ poll_response = [pours |-> NoPours, odd |-> FALSE]
    /\ reports = [s \in ProgressSides |->
                    [op |-> "none", returned |-> NoPours,
                     completed |-> [k \in KegIds |-> 0]]]

\* --------------------------------------------------------- initial states
NoActivePours == [k \in {} |-> 0]

InitWith(tapped) ==
    /\ now = 0
    /\ kegs = [k \in KegIds |->
                 IF k \in tapped
                 THEN [status |-> "tapped", tap_position |-> k,
                       volume_remaining |-> InitialVolume[k]]
                 ELSE [status |-> "untapped", tap_position |-> 0,
                       volume_remaining |-> InitialVolume[k]]]
    /\ pour_events = <<>>
    /\ running = FALSE
    /\ flow_trackers = {}
    /\ active_pours = NoActivePours
    /\ flow_meter = [t \in Taps |-> NewFlowMeter(TapConfigs[t].pulses_per_liter)]
    /\ tracker = [t \in Taps |-> NewTracker(0)]
    /\ gpio = [t \in Taps |-> [pc |-> "idle", total_volume |-> 0]]
    /\ monitor = [t \in Taps |-> IdleMonitor]
    /\ client = IdleClient
    /\ last_call = [op |-> "none", tap |-> 0, result |-> "none"]
    /\ commit_start = [t \in Taps |-> NoCommit]
    /\ stopped_active = [t \in Taps |-> FALSE]
    /\ InitBench
    /\ InitWeb

\* Every keg is on the tap of its own number.
Init == InitWith(KegIds)

\* -------------------------------------------------------------- the clock
Tick ==
    /\ now + TickSeconds <= MaxTime
    /\ now' = now + TickSeconds
    /\ UNCHANGED <<bench, web, kegs, pour_events, running, flow_trackers, active_pours,
                   flow_meter, tracker, gpio, monitor, client, last_call,
                   commit_start, stopped_active>>

\* ------------------------------------------------------ MultiTapFlowSystem
\* The taps setup_tap configures: those a Tapped keg holds.
ConfigurableTaps == {t \in Taps : TappedKegsAt(t) # {}}

KegAtTap(t) == CHOOSE k \in TappedKegsAt(t) : TRUE

\* KegFlowTracker.start_tracking on tracker tr
StartTracking(tr) ==
    [tr EXCEPT !.stop_monitoring = FALSE, !.last_flow_time = now]

\* KegFlowTracker.stop_tracking on tracker tr
StopTracking(tr) == [tr EXCEPT !.stop_monitoring = TRUE]

\* A session is Active and its monitor is not finalizing it.
SessionOpen(t) == tracker[t].is_pouring /\ monitor[t].pc = "loop"

\* start_all, on a system that was not started before: setup_tap and
\* start_tap for every entry of tap_configs.
StartAll ==
    /\ ~running
    /\ flow_trackers = {}
    /\ flow_trackers' = ConfigurableTaps
    /\ flow_meter' = [t \in Taps |->
                        IF t \in ConfigurableTaps
                        THEN StartMonitoring(NewFlowMeter(TapConfigs[t].pulses_per_liter))
                        ELSE flow_meter[t]]
    /\ tracker' = [t \in Taps |->
                     IF t \in ConfigurableTaps
                     THEN StartTracking(NewTracker(KegAtTap(t)))
                     ELSE tracker[t]]
    /\ monitor' = [t \in Taps |->
                     IF t \in ConfigurableTaps
                     THEN [IdleMonitor EXCEPT !.pc = "loop"]
                     ELSE monitor[t]]
    /\ running' = TRUE
    /\ last_call' = [op |-> "start_all", tap |-> 0, result |-> "none"]
    /\ UNCHANGED <<bench, web, now, kegs, pour_events, active_pours, gpio, client,
                   commit_start, stopped_active>>

\* FlowMeter.start_monitoring when GPIO.add_event_detect raises: the flags
\* are set, no callback is subscribed.
StartMonitoringRaises(m) ==
    IF m.is_monitoring
    THEN m
    ELSE [m EXCEPT !.is_monitoring = TRUE, !.start_time = now]

\* start_all, on a system that was not started before, when the hardware of
\* one tap fails. With fault "setup_error" GPIO.setup raises in
\* FlowMeter.__init__: setup_tap catches it and returns False, and the loop
\* goes on. With fault "start_error" GPIO.add_event_detect raises in
\* start_monitoring: neither start_tracking nor start_tap nor start_all
\* catches it, so the loop ends at that tap, in the order of tap_configs.
StartAllOnHardware(faulty, fault) ==
    /\ ~running
    /\ flow_trackers = {}
    /\ faulty \in ConfigurableTaps
    /\ LET raised == fault = "start_error"
           reached == IF raised THEN {t \in ConfigurableTaps : t <= faulty}
                      ELSE ConfigurableTaps \ {faulty}
           started == reached \ {faulty}
       IN /\ flow_trackers' = reached
          /\ flow_meter' = [t \in Taps |->
                IF t \in started
                THEN StartMonitoring(NewFlowMeter(TapConfigs[t].pulses_per_liter))
                ELSE IF t \in reached
                THEN StartMonitoringRaises(NewFlowMeter(TapConfigs[t].pulses_per_liter))
                ELSE flow_meter[t]]
          /\ tracker' = [t \in Taps |->
                IF t \in started THEN StartTracking(NewTracker(KegAtTap(t)))
                ELSE IF t \in reached THEN NewTracker(KegAtTap(t))
                ELSE tracker[t]]
          /\ monitor' = [t \in Taps |->
                IF t \in started THEN [IdleMonitor EXCEPT !.pc = "loop"]
                ELSE monitor[t]]
          /\ running' = ~raised
          /\ last_call' = [op |-> "start_all", tap |-> faulty, result |-> fault]
    /\ UNCHANGED <<bench, web, now, kegs, pour_events, active_pours, gpio, client,
                   commit_start, stopped_active>>

\* start_tap(t), while no monitor thread of the tracker is alive.
StartTap(t) ==
    /\ t \in flow_trackers
    /\ monitor[t].pc \in {"none", "exited"}
    /\ flow_meter' = [flow_meter EXCEPT ![t] = StartMonitoring(@)]
    /\ tracker' = [tracker EXCEPT ![t] = StartTracking(@)]
    /\ monitor' = [monitor EXCEPT ![t] = [IdleMonitor EXCEPT !.pc = "loop"]]
    /\ last_call' = [op |-> "start_tap", tap |-> t,
                     result |-> IF flow_meter[t].is_monitoring
                                THEN "already_monitoring" ELSE "started"]
    /\ stopped_active' = [stopped_active EXCEPT ![t] = FALSE]
    /\ UNCHANGED <<bench, web, now, kegs, pour_events, running, flow_trackers, active_pours,
                   gpio, client, commit_start>>

\* stop_tap(t): stop_tracking, then flow_meter.cleanup()
StopTap(t) ==
    /\ t \in flow_trackers
    /\ tracker' = [tracker EXCEPT ![t] = StopTracking(@)]
    /\ flow_meter' = [flow_meter EXCEPT ![t] = Cleanup(@).meter]
    /\ last_call' = [op |-> "stop_tap", tap |-> t,
                     result |-> Cleanup(flow_meter[t]).raised]
    /\ stopped_active' = [stopped_active EXCEPT ![t] = @ \/ SessionOpen(t)]
    /\ UNCHANGED <<bench, web, now, kegs, pour_events, running, flow_trackers, active_pours,
                   gpio, monitor, client, commit_start>>

\* stop_all on a running system: stop_tap for each key of flow_trackers in
\* turn, then clear flow_trackers and running. An exception of the first
\* stop_tap leaves the loop and stop_all.
StopAll ==
    /\ running
    /\ IF flow_trackers = {}
       THEN /\ running' = FALSE
            /\ last_call' = [op |-> "stop_all", tap |-> 0, result |-> "none"]
            /\ UNCHANGED <<flow_trackers, tracker, flow_meter, stopped_active>>
       ELSE \E first \in flow_trackers :
              IF Cleanup(flow_meter[first]).raised # "none"
              THEN /\ tracker' = [tracker EXCEPT ![first] = StopTracking(@)]
                   /\ flow_meter' = [flow_meter EXCEPT ![first] = Cleanup(@).meter]
                   /\ stopped_active' =
                        [stopped_active EXCEPT ![first] = @ \/ SessionOpen(first)]
                   /\ last_call' = [op |-> "stop_all", tap |-> first,
                                    result |-> Cleanup(flow_meter[first]).raised]
                   /\ UNCHANGED <<running, flow_trackers>>
              ELSE /\ tracker' = [t \in Taps |->
                                    IF t \in flow_trackers
                                    THEN StopTracking(tracker[t]) ELSE tracker[t]]
                   /\ flow_meter' = [t \in Taps |->
                                       IF t \in flow_trackers
                                       THEN Cleanup(flow_meter[t]).meter
                                       ELSE flow_meter[t]]
                   /\ stopped_active' =
                        [t \in Taps |->
                           stopped_active[t] \/ (t \in flow_trackers /\ SessionOpen(t))]
                   /\ flow_trackers' = {}
                   /\ running' = FALSE
                   /\ last_call' = [op |-> "stop_all", tap |-> 0, result |-> "none"]
    /\ UNCHANGED <<bench, web, now, kegs, pour_events, active_pours, gpio, monitor, client,
                   commit_start>>

\* ------------------------------------------------- the edge callback thread
RECURSIVE SumPulses(_)
SumPulses(S) ==
    IF S = {} THEN 0
    ELSE LET t == CHOOSE x \in S : TRUE
         IN flow_meter[t].pulse_count + SumPulses(S \ {t})

\* FlowMeter._pulse_detected up to its callbacks, for an edge the debounce
\* accepts: count the pulse and recompute volume_total.
CountPulse(m) ==
    [m EXCEPT !.pulse_count = @ + 1,
              !.volume_total = VolumeOf(m.pulse_count + 1, m.pulses_per_liter)]

PulseDetected(t) ==
    /\ t \in flow_trackers
    /\ flow_meter[t].subscriptions > 0
    /\ gpio[t].pc = "idle"
    /\ SumPulses(Taps) < MaxPulses
    /\ flow_meter' = [flow_meter EXCEPT ![t] = CountPulse(@)]
    /\ gpio' = [gpio EXCEPT ![t] = [pc |-> "on_volume_change",
                                    total_volume |-> CountPulse(flow_meter[t]).volume_total]]
    /\ UNCHANGED <<bench, web, now, kegs, pour_events, running, flow_trackers, active_pours,
                   tracker, monitor, client, last_call, commit_start, stopped_active>>

\* The block without its condition: every notification starts a session.
BeginPourAlways(tr) == [tr EXCEPT !.is_pouring = TRUE, !.pour_start_time = now]

\* KegFlowTracker._on_volume_change, "if not self.is_pouring" block
BeginPour(tr) ==
    IF ~tr.is_pouring
    THEN [tr EXCEPT !.is_pouring = TRUE, !.pour_start_time = now]
    ELSE tr

OnVolumeChange(t) ==
    /\ gpio[t].pc = "on_volume_change"
    /\ tracker' = [tracker EXCEPT ![t] = BeginPour(@)]
    /\ gpio' = [gpio EXCEPT ![t].pc = "reset_timeout"]
    /\ UNCHANGED <<bench, web, now, kegs, pour_events, running, flow_trackers, active_pours,
                   flow_meter, monitor, client, last_call, commit_start, stopped_active>>

\* MultiTapFlowSystem._track_active_pour
TrackActivePour(keg_id, volume) ==
    LET old == IF keg_id \in DOMAIN active_pours
               THEN active_pours[keg_id].total_volume ELSE 0
    IN [k \in DOMAIN active_pours \cup {keg_id} |->
          IF k = keg_id
          THEN [total_volume |-> old + volume, last_update |-> now]
          ELSE active_pours[k]]

\* KegFlowTracker._on_volume_change, from "Reset pour timeout" to its end
ResetPourTimeout(t) ==
    /\ gpio[t].pc = "reset_timeout"
    /\ tracker' = [tracker EXCEPT ![t].last_flow_time = now]
    /\ LET volume_since_last == gpio[t].total_volume - tracker[t].last_logged_volume
       IN active_pours' = IF volume_since_last > 0
                          THEN TrackActivePour(tracker[t].keg_id, volume_since_last)
                          ELSE active_pours
    /\ gpio' = [gpio EXCEPT ![t].pc = "idle"]
    /\ UNCHANGED <<bench, web, now, kegs, pour_events, running, flow_trackers, flow_meter,
                   monitor, client, last_call, commit_start, stopped_active>>

\* ------------------------------------------------- the pour monitor thread
\* A threshold test that every session passes
ReachesThresholdAlways(volume_poured) == volume_poured >= 0

\* A threshold test that a session has to exceed
ReachesThresholdStrictly(volume_poured) == volume_poured > PourThresholdMl

\* _monitor_pour_events: "volume_poured_ml >= self.pour_threshold_ml"
ReachesThreshold(volume_poured) == volume_poured >= PourThresholdMl

\* The loop without its timeout: no session is ever found stopped.
NeverTimedOut(tr) == FALSE

\* "(current_time - self.last_flow_time) > self.pour_timeout"
TimedOut(tr) == (now - tr.last_flow_time) > PourTimeout

\* One pass of the loop that finds the pour stopped: read volume_poured and
\* decide between the commit and the reset.
MonitorCheck(t) ==
    /\ monitor[t].pc = "loop"
    /\ ~tracker[t].stop_monitoring
    /\ tracker[t].is_pouring
    /\ TimedOut(tracker[t])
    /\ LET volume_poured == flow_meter[t].volume_total - tracker[t].last_logged_volume
           keg_id == tracker[t].keg_id
       IN /\ monitor' = [monitor EXCEPT ![t] =
                           [@ EXCEPT !.pc = IF ReachesThreshold(volume_poured)
                                            THEN "update_keg" ELSE "reset",
                                     !.volume_poured = volume_poured,
                                     !.keg = NoRow]]
          /\ commit_start' = [commit_start EXCEPT ![t] =
                                IF ReachesThreshold(volume_poured)
                                THEN [volume_remaining |-> kegs[keg_id].volume_remaining,
                                      events |-> Len(pour_events),
                                      tapped |-> QueryTappedKeg(keg_id) # NoRow]
                                ELSE NoCommit]
    /\ UNCHANGED <<bench, web, now, kegs, pour_events, running, flow_trackers, active_pours,
                   flow_meter, tracker, gpio, client, last_call, stopped_active>>

\* "while not self.stop_monitoring.is_set()" ends the thread
MonitorExit(t) ==
    /\ monitor[t].pc = "loop"
    /\ tracker[t].stop_monitoring
    /\ monitor' = [monitor EXCEPT ![t].pc = "exited"]
    /\ UNCHANGED <<bench, web, now, kegs, pour_events, running, flow_trackers, active_pours,
                   flow_meter, tracker, gpio, client, last_call, commit_start,
                   stopped_active>>

\* _update_keg_volume_api: requests.post to /api/flow/<keg_id>. Either the
\* request fails before the endpoint changes anything (transport error, 400,
\* 500), or flow_update looks the keg up: 404 when it is not Tapped.
ApiPost(t) ==
    /\ monitor[t].pc = "update_keg"
    /\ \E outcome \in {"failed", "handled"} :
         LET keg == QueryTappedKeg(tracker[t].keg_id)
         IN monitor' = [monitor EXCEPT ![t] =
              IF outcome = "failed" \/ keg = NoRow
              THEN [@ EXCEPT !.pc = "db_update", !.keg = NoRow]
              ELSE [@ EXCEPT !.pc = "api_commit", !.keg = keg]]
    /\ UNCHANGED <<bench, web, now, kegs, pour_events, running, flow_trackers, active_pours,
                   flow_meter, tracker, gpio, client, last_call, commit_start,
                   stopped_active>>

\* flow_update: session.commit() of the new volume and the PourEvent, then the
\* response, which the tracker receives as 200 or loses (timeout=5).
ApiCommit(t) ==
    /\ monitor[t].pc = "api_commit"
    /\ kegs' = UpdateKegVolume(tracker[t].keg_id,
                               ClampedSubtract(monitor[t].keg, monitor[t].volume_poured))
    /\ pour_events' = InsertPourEvent(tracker[t].keg_id, monitor[t].volume_poured)
    /\ \E response \in {"200", "lost"} :
         monitor' = [monitor EXCEPT ![t].pc =
                       IF response = "200" THEN "reset" ELSE "db_update"]
    /\ UNCHANGED <<bench, web, now, running, flow_trackers, active_pours, flow_meter, tracker,
                   gpio, client, last_call, commit_start, stopped_active>>

\* _update_keg_volume_db: the query
DbUpdateQuery(t) ==
    /\ monitor[t].pc = "db_update"
    /\ LET keg == QueryTappedKeg(tracker[t].keg_id)
       IN monitor' = [monitor EXCEPT ![t] =
            [@ EXCEPT !.pc = IF keg = NoRow THEN "db_log" ELSE "db_commit",
                      !.keg = keg]]
    /\ UNCHANGED <<bench, web, now, kegs, pour_events, running, flow_trackers, active_pours,
                   flow_meter, tracker, gpio, client, last_call, commit_start,
                   stopped_active>>

\* _update_keg_volume_db: session.commit()
DbUpdateCommit(t) ==
    /\ monitor[t].pc = "db_commit"
    /\ kegs' = UpdateKegVolume(tracker[t].keg_id,
                               ClampedSubtract(monitor[t].keg, monitor[t].volume_poured))
    /\ monitor' = [monitor EXCEPT ![t].pc = "db_log"]
    /\ UNCHANGED <<bench, web, now, pour_events, running, flow_trackers, active_pours,
                   flow_meter, tracker, gpio, client, last_call, commit_start,
                   stopped_active>>

\* _log_pour_event_db
LogPourEventDb(keg_id, volume) ==
    IF PourEventImported THEN InsertPourEvent(keg_id, volume) ELSE pour_events

DbLogPourEvent(t) ==
    /\ monitor[t].pc = "db_log"
    /\ pour_events' = LogPourEventDb(tracker[t].keg_id, monitor[t].volume_poured)
    /\ monitor' = [monitor EXCEPT ![t].pc = "reset"]
    /\ UNCHANGED <<bench, web, now, kegs, running, flow_trackers, active_pours, flow_meter,
                   tracker, gpio, client, last_call, commit_start, stopped_active>>

\* _monitor_pour_events, "Reset pour tracking"
ResetPourTracking(tr, m) ==
    [tr EXCEPT !.is_pouring = FALSE, !.last_logged_volume = m.volume_total]

\* The reset that sends a pour no path has committed back to the commit.
MonitorResetRetrying(t) ==
    /\ monitor[t].pc = "reset"
    /\ LET retry == commit_start[t] # NoCommit /\ monitor[t].keg = NoRow
       IN /\ tracker' = IF retry THEN tracker
                        ELSE [tracker EXCEPT ![t] = ResetPourTracking(@, flow_meter[t])]
          /\ monitor' = [monitor EXCEPT ![t].pc = IF retry THEN "update_keg" ELSE "loop"]
    /\ UNCHANGED <<bench, web, now, kegs, pour_events, running, flow_trackers, active_pours,
                   flow_meter, gpio, client, last_call, commit_start, stopped_active>>

MonitorReset(t) ==
    /\ monitor[t].pc = "reset"
    /\ tracker' = [tracker EXCEPT ![t] = ResetPourTracking(@, flow_meter[t])]
    /\ monitor' = [monitor EXCEPT ![t].pc = "loop"]
    /\ UNCHANGED <<bench, web, now, kegs, pour_events, running, flow_trackers, active_pours,
                   flow_meter, gpio, client, last_call, commit_start, stopped_active>>

\* ------------------------------------- a second monitor thread of a tracker
\* start_tap(t) while the monitor thread of the tracker is alive: start_tracking
\* clears stop_monitoring and starts one more thread without looking at the
\* one it has (at its loop, in a commit, or asked to stop and not yet joined).
StartTapAgain(t) ==
    /\ t \in flow_trackers
    /\ monitor[t].pc \notin {"none", "exited"}
    /\ monitor[t].second.pc \in {"none", "exited"}
    /\ flow_meter' = [flow_meter EXCEPT ![t] = StartMonitoring(@)]
    /\ tracker' = [tracker EXCEPT ![t] = StartTracking(@)]
    /\ monitor' = [monitor EXCEPT ![t].second = [NoThread EXCEPT !.pc = "loop"]]
    /\ last_call' = [op |-> "start_tap", tap |-> t,
                     result |-> IF flow_meter[t].is_monitoring
                                THEN "already_monitoring" ELSE "started"]
    /\ UNCHANGED <<bench, web, now, kegs, pour_events, running, flow_trackers, active_pours,
                   gpio, client, commit_start, stopped_active>>

\* One pass of the second thread's loop that finds the pour stopped.
SecondCheck(t) ==
    /\ monitor[t].second.pc = "loop"
    /\ ~tracker[t].stop_monitoring
    /\ tracker[t].is_pouring
    /\ TimedOut(tracker[t])
    /\ LET volume_poured == flow_meter[t].volume_total - tracker[t].last_logged_volume
       IN monitor' = [monitor EXCEPT ![t].second =
                        [pc |-> IF ReachesThreshold(volume_poured)
                                THEN "update_keg" ELSE "reset",
                         volume_poured |-> volume_poured]]
    /\ UNCHANGED <<bench, web, now, kegs, pour_events, running, flow_trackers, active_pours,
                   flow_meter, tracker, gpio, client, last_call, commit_start,
                   stopped_active>>

\* update_keg_callback of the second thread, with the API answering: a keg
\* that is Tapped gets the clamped difference and a PourEvent (200), a keg
\* that is not is left as it is (404, and the fallback finds no keg either).
SecondUpdateKeg(t) ==
    /\ monitor[t].second.pc = "update_keg"
    /\ LET keg_id == tracker[t].keg_id
           keg == QueryTappedKeg(keg_id)
       IN IF keg = NoRow
          THEN /\ pour_events' = LogPourEventDb(keg_id, monitor[t].second.volume_poured)
               /\ UNCHANGED kegs
          ELSE /\ kegs' = UpdateKegVolume(keg_id,
                             ClampedSubtract(keg, monitor[t].second.volume_poured))
               /\ pour_events' = InsertPourEvent(keg_id, monitor[t].second.volume_poured)
    /\ monitor' = [monitor EXCEPT ![t].second.pc = "reset"]
    /\ UNCHANGED <<bench, web, now, running, flow_trackers, active_pours, flow_meter, tracker,
                   gpio, client, last_call, commit_start, stopped_active>>

\* The reset of the second thread
SecondReset(t) ==
    /\ monitor[t].second.pc = "reset"
    /\ tracker' = [tracker EXCEPT ![t] = ResetPourTracking(@, flow_meter[t])]
    /\ monitor' = [monitor EXCEPT ![t].second.pc = "loop"]
    /\ UNCHANGED <<bench, web, now, kegs, pour_events, running, flow_trackers, active_pours,
                   flow_meter, gpio, client, last_call, commit_start, stopped_active>>

\* "while not self.stop_monitoring.is_set()" ends the second thread
SecondExit(t) ==
    /\ monitor[t].second.pc = "loop"
    /\ tracker[t].stop_monitoring
    /\ monitor' = [monitor EXCEPT ![t].second.pc = "exited"]
    /\ UNCHANGED <<bench, web, now, kegs, pour_events, running, flow_trackers, active_pours,
                   flow_meter, tracker, gpio, client, last_call, commit_start,
                   stopped_active>>

\* ------------------------------------------------ reset_tap_volume on a tap
\* FlowMeter.reset on the meter of a tap: pulse_count and volume_total
ResetMeter(m) == [m EXCEPT !.pulse_count = 0, !.volume_total = 0]

\* reset_tap_volume(t), once in a run: the meter of the tap is reset and
\* its tracker is not touched.
ResetTapVolumeAt(t) ==
    /\ t \in flow_trackers
    /\ last_call.op # "reset_tap_volume"
    /\ flow_meter' = [flow_meter EXCEPT ![t] = ResetMeter(@)]
    /\ last_call' = [op |-> "reset_tap_volume", tap |-> t, result |-> "none"]
    /\ UNCHANGED <<bench, web, now, kegs, pour_events, running, flow_trackers, active_pours,
                   tracker, gpio, monitor, client, commit_start, stopped_active>>

\* ------------------------------------------------------- the web application
\* keg_app.take_keg_off_tap, behind the /off_tap/<keg_id> route
TakeKegOffTap(k) ==
    /\ kegs[k].status = "tapped"
    /\ kegs' = [kegs EXCEPT ![k].status = "off_tap", ![k].tap_position = 0]
    /\ UNCHANGED <<bench, web, now, pour_events, running, flow_trackers, active_pours,
                   flow_meter, tracker, gpio, monitor, client, last_call,
                   commit_start, stopped_active>>

\* Another client of the store: a POST to /api/flow/<keg_id> (flow_update) or a
\* call of keg_app.subtract_volume. Its lookup; a keg that is missing or not
\* Tapped ends the call (404, None).
ClientCall(op, keg_id, volume) ==
    /\ client.pc = "idle"
    /\ client.calls < MaxClientCalls
    /\ LET keg == QueryTappedKeg(keg_id)
       IN client' = IF keg = NoRow
                    THEN [IdleClient EXCEPT !.calls = client.calls + 1]
                    ELSE [pc |-> "commit", op |-> op, keg_id |-> keg_id,
                          volume |-> volume, keg |-> keg, calls |-> client.calls + 1]
    /\ UNCHANGED <<bench, web, now, kegs, pour_events, running, flow_trackers, active_pours,
                   flow_meter, tracker, gpio, monitor, last_call, commit_start,
                   stopped_active>>

\* Its session.commit(): flow_update adds a PourEvent, subtract_volume none.
ClientCommit ==
    /\ client.pc = "commit"
    /\ kegs' = UpdateKegVolume(client.keg_id, ClampedSubtract(client.keg, client.volume))
    /\ pour_events' = IF client.op = "flow_update"
                      THEN InsertPourEvent(client.keg_id, client.volume)
                      ELSE pour_events
    /\ client' = [IdleClient EXCEPT !.calls = client.calls]
    /\ UNCHANGED <<bench, web, now, running, flow_trackers, active_pours, flow_meter, tracker,
                   gpio, monitor, last_call, commit_start, stopped_active>>

\* ------------------------------------------------------ tapping and untapping
\* Tap requests the workers have accepted so far.
RECURSIVE TapRequestsServed(_)
TapRequestsServed(W) ==
    IF W = {} THEN 0
    ELSE LET w == CHOOSE x \in W : TRUE
         IN tap_requests[w].calls + TapRequestsServed(W \ {w})

\* The status a route requires of the keg it taps: tap_new* taps an Untapped
\* keg, tap_previous* an Off-tap one.
WantedStatus(route) ==
    IF route \in {"tap_new_keg", "tap_new_with_position"}
    THEN "untapped" ELSE "off_tap"

\* keg_app.get_next_available_tap_position
NextAvailableTapPosition ==
    LET taken == {kegs[k].tap_position :
                    k \in {x \in KegIds : kegs[x].status = "tapped"
                                            /\ kegs[x].tap_position # NoPosition}}
        free == TapPositions \ taken
    IN IF free = {} THEN NoPosition
       ELSE CHOOSE p \in free : \A q \in free : p <= q

\* The request without its existing_keg check: every position is free.
PositionFreeAlways(tap_position) == TRUE

\* tap_new_with_position, tap_previous_with_position: "existing_keg" is None
PositionFree(tap_position) == TappedKegsAt(tap_position) = {}

\* keg.status = TAPPED; keg.tap_position = ...; session.commit()
AssignTap(keg_id, tap_position) ==
    [kegs EXCEPT ![keg_id].status = "tapped", ![keg_id].tap_position = tap_position]

\* app.tap_new_with_position and app.tap_previous_with_position, to the end of
\* the existing_keg check: a position a Tapped keg holds ends the request.
TapWithPosition(w, route, keg_id, tap_position) ==
    /\ tap_requests[w].pc = "idle"
    /\ TapRequestsServed(Workers) < MaxTapRequests
    /\ tap_requests' =
         [tap_requests EXCEPT ![w] =
            [pc |-> IF PositionFree(tap_position) THEN "assign" ELSE "idle",
             route |-> route, keg_id |-> keg_id, tap_position |-> tap_position,
             result |-> IF PositionFree(tap_position) THEN "none" ELSE "refused",
             calls |-> @.calls + 1]]
    /\ UNCHANGED <<system, bench, volume_tracker, latest_volume_data, poll_response, reports>>

\* keg_app.tap_new_keg and keg_app.tap_previous_keg, to the choice of the
\* position: the keg is loaded, its status checked, the position chosen.
TapNextAvailable(w, route, keg_id) ==
    /\ tap_requests[w].pc = "idle"
    /\ TapRequestsServed(Workers) < MaxTapRequests
    /\ LET wanted == kegs[keg_id].status = WantedStatus(route)
           position == NextAvailableTapPosition
           go == wanted /\ position # NoPosition
       IN tap_requests' =
            [tap_requests EXCEPT ![w] =
               [pc |-> IF go THEN "assign" ELSE "idle",
                route |-> route, keg_id |-> keg_id,
                tap_position |-> IF go THEN position ELSE NoPosition,
                result |-> IF go THEN "none"
                           ELSE IF wanted THEN "no_position" ELSE "ignored",
                calls |-> @.calls + 1]]
    /\ UNCHANGED <<system, bench, volume_tracker, latest_volume_data, poll_response, reports>>

\* The rest of the request: the *_with_position routes load the keg and check
\* its status here, tap_new_keg and tap_previous_keg write the keg they loaded
\* before they chose the position.
TapAssign(w) ==
    /\ tap_requests[w].pc = "assign"
    /\ LET r == tap_requests[w]
           checked == r.route \in {"tap_new_keg", "tap_previous_keg"}
           go == checked \/ kegs[r.keg_id].status = WantedStatus(r.route)
       IN /\ kegs' = IF go THEN AssignTap(r.keg_id, r.tap_position) ELSE kegs
          /\ tap_requests' = [tap_requests EXCEPT ![w].pc = "idle",
                                 ![w].result = IF go THEN "tapped" ELSE "ignored"]
    /\ UNCHANGED <<bench, now, pour_events, running, flow_trackers, active_pours,
                   flow_meter, tracker, gpio, monitor, client, last_call,
                   commit_start, stopped_active,
                   volume_tracker, latest_volume_data, poll_response, reports>>

\* app.finish_keg: the keg goes Off-tap and keeps its tap_position
FinishKeg(k) ==
    /\ kegs[k].status = "tapped"
    /\ kegs' = [kegs EXCEPT ![k].status = "off_tap"]
    /\ UNCHANGED <<bench, web, now, pour_events, running, flow_trackers, active_pours,
                   flow_meter, tracker, gpio, monitor, client, last_call,
                   commit_start, stopped_active>>

\* ------------------------------------------------------- progress of pours
\* Volume increments the progress callbacks are given, in ml.
ProgressVolumes == {25}

\* get_active_pours: the entries with no update for longer than the window
StaleEntries(entries, window) ==
    {k \in DOMAIN entries : now - entries[k].last_update > window}

\* The call without its removal loop: every entry stays.
KeepEntries(entries, kegs_to_remove) == entries

\* get_active_pours: "del self.active_pours[keg_id]" for kegs_to_remove
RemoveEntries(entries, kegs_to_remove) ==
    [k \in DOMAIN entries \ kegs_to_remove |-> entries[k]]

\* VolumeTracker.get_active_pours: the two lists it returns, as the keg ids
\* of their items
VolumeTrackerPours(entries) ==
    LET stale == StaleEntries(entries, VolumeTrackerWindow)
    IN [active_pours |-> DOMAIN entries \ stale, completed_pours |-> stale]

\* MultiTapFlowSystem.get_active_pours: the two lists it returns, as the keg
\* ids of their items
FlowSystemPours(entries) ==
    LET stale == StaleEntries(entries, FlowSystemWindow)
    IN [active_pours |-> DOMAIN entries \ stale, completed_pours |-> stale]

\* What a call of get_active_pours leaves in reports: its result, and one
\* more completed report for every keg in completed_pours.
Reported(side, returned) ==
    [reports EXCEPT ![side] =
       [op |-> "get_active_pours", returned |-> returned,
        completed |-> [k \in KegIds |->
                         IF k \in returned.completed_pours
                         THEN reports[side].completed[k] + 1
                         ELSE reports[side].completed[k]]]]

\* What a callback that updates the entry of keg_id leaves in reports; a new
\* entry has no completed report.
Updated(side, keg_id, is_new) ==
    [reports EXCEPT ![side].op = "update",
                    ![side].completed[keg_id] = IF is_new THEN 0 ELSE @]

\* MultiTapFlowSystem._track_active_pour, the active_pour_callback
ActivePourCallback(keg_id, volume_liters) ==
    /\ keg_id \in DOMAIN active_pours
       => active_pours[keg_id].total_volume + volume_liters <= MaxProgressVolume
    /\ active_pours' = TrackActivePour(keg_id, volume_liters)
    /\ reports' = Updated("flow_system", keg_id, keg_id \notin DOMAIN active_pours)
    /\ UNCHANGED <<bench, now, kegs, pour_events, running, flow_trackers, flow_meter,
                   tracker, gpio, monitor, client, last_call, commit_start,
                   stopped_active, tap_requests, volume_tracker, latest_volume_data,
                   poll_response>>

\* MultiTapFlowSystem.get_active_pours
FlowSystemGetActivePours ==
    /\ active_pours' = RemoveEntries(active_pours,
                                     StaleEntries(active_pours, FlowSystemWindow))
    /\ reports' = Reported("flow_system", FlowSystemPours(active_pours))
    /\ UNCHANGED <<bench, now, kegs, pour_events, running, flow_trackers, flow_meter,
                   tracker, gpio, monitor, client, last_call, commit_start,
                   stopped_active, tap_requests, volume_tracker, latest_volume_data,
                   poll_response>>

\* VolumeTracker.start_pour
StartPour(keg_id) ==
    /\ volume_tracker.running
    /\ keg_id \notin DOMAIN volume_tracker.active_pours
    /\ volume_tracker' =
         [volume_tracker EXCEPT !.active_pours =
            [k \in DOMAIN @ \cup {keg_id} |->
               IF k = keg_id THEN [volume |-> 0, last_update |-> now] ELSE @[k]]]
    /\ reports' = Updated("volume_tracker", keg_id, TRUE)
    /\ UNCHANGED <<system, bench, tap_requests, latest_volume_data, poll_response>>

\* VolumeTracker.update_pour_volume
UpdatePourVolume(keg_id, volume_increment) ==
    /\ volume_tracker.running
    /\ keg_id \in DOMAIN volume_tracker.active_pours
    /\ volume_tracker.active_pours[keg_id].volume + volume_increment <= MaxProgressVolume
    /\ volume_tracker' =
         [volume_tracker EXCEPT !.active_pours[keg_id] =
            [volume |-> @.volume + volume_increment, last_update |-> now]]
    /\ reports' = Updated("volume_tracker", keg_id, FALSE)
    /\ UNCHANGED <<system, bench, tap_requests, latest_volume_data, poll_response>>

\* VolumeTracker.finish_pour
FinishPour(keg_id) ==
    /\ volume_tracker.running
    /\ keg_id \in DOMAIN volume_tracker.active_pours
    /\ volume_tracker' =
         [volume_tracker EXCEPT !.active_pours = RemoveEntries(@, {keg_id})]
    /\ reports' = [reports EXCEPT !["volume_tracker"].op = "finish_pour"]
    /\ UNCHANGED <<system, bench, tap_requests, latest_volume_data, poll_response>>

\* VolumeTracker.get_active_pours, called on its own
VolumeTrackerGetActivePours ==
    /\ volume_tracker.pc = "sleep"
    /\ LET entries == volume_tracker.active_pours
       IN /\ volume_tracker' =
               [volume_tracker EXCEPT
                  !.active_pours = RemoveEntries(entries,
                                       StaleEntries(entries, VolumeTrackerWindow))]
          /\ reports' = Reported("volume_tracker", VolumeTrackerPours(entries))
    /\ UNCHANGED <<system, bench, tap_requests, latest_volume_data, poll_response>>

\* VolumeTracker._send_updates_to_flask, one pass up to the request:
\* get_active_pours, and the payload when one of its lists is not empty.
SendUpdatesToFlask ==
    /\ volume_tracker.running
    /\ volume_tracker.pc = "sleep"
    /\ LET entries == volume_tracker.active_pours
           returned == VolumeTrackerPours(entries)
       IN /\ volume_tracker' =
               [volume_tracker EXCEPT
                  !.active_pours = RemoveEntries(entries,
                                       StaleEntries(entries, VolumeTrackerWindow)),
                  !.pc = IF returned = NoPours THEN "sleep" ELSE "post",
                  !.data = returned]
          /\ reports' = Reported("volume_tracker", returned)
    /\ UNCHANGED <<system, bench, tap_requests, latest_volume_data, poll_response>>

\* requests.post to /api/volume-update (timeout=1): either volume_update
\* stores the payload in app.latest_volume_data or the request fails, which
\* the update thread logs. The payload's timestamp is stored with it and
\* never read; "received" is the time of the request, which the web
\* application does not keep.
VolumeUpdate ==
    /\ volume_tracker.running
    /\ volume_tracker.pc = "post"
    /\ \E outcome \in {"stored", "failed"} :
         latest_volume_data' =
            IF outcome = "stored"
            THEN [active_pours |-> volume_tracker.data.active_pours,
                  completed_pours |-> volume_tracker.data.completed_pours,
                  assigned |-> TRUE, received |-> now]
            ELSE latest_volume_data
    /\ volume_tracker' = [volume_tracker EXCEPT !.pc = "sleep", !.data = NoPours]
    /\ UNCHANGED <<system, bench, tap_requests, poll_response, reports>>

\* The process that runs the VolumeTracker stops or crashes.
PublisherStops ==
    /\ volume_tracker.running
    /\ volume_tracker' = [volume_tracker EXCEPT !.running = FALSE, !.pc = "stopped",
                                                !.data = NoPours]
    /\ UNCHANGED <<system, bench, tap_requests, latest_volume_data, poll_response,
                   reports>>

\* app.active_pours, GET /api/active-pours: the stored payload when there is
\* one; flow_system is None in the web application, so otherwise the lists
\* are built from the PourEvent rows of the last seconds, of which there are
\* none here.
ActivePoursEndpoint ==
    /\ latest_volume_data # NoData \/ pour_events = <<>>
    /\ poll_response' =
         [pours |-> IF latest_volume_data # NoData
                    THEN [active_pours |-> latest_volume_data.active_pours,
                          completed_pours |-> latest_volume_data.completed_pours]
                    ELSE NoPours,
          odd |-> ~poll_response.odd]
    /\ UNCHANGED <<system, bench, tap_requests, volume_tracker, latest_volume_data,
                   reports>>

\* volume_dispensed values flow_update and subtract_volume accept, in ml: any
\* number, a negative one and one above the keg's volume included.
CommitVolumes == {0 - 30, 60}
\* The kegs the clients commit to: the keg that is on tap.
CommitKegs == {1}

\* ------------------------------------------------- the meter on the bench
\* time.time() moves on.
ClockTick ==
    /\ bench_log.ticks < MaxTicks
    /\ \E d \in ClockSteps : clock' = clock + d
    /\ bench_log' = [bench_log EXCEPT !.ticks = @ + 1, !.op = "tick",
                                      !.result = "none"]
    /\ UNCHANGED <<system, web, meter, calibrating, config_file>>

\* A debounce test that lets every edge pass
NeverDebounced(m) == FALSE

\* "if current_time - self.last_pulse_time < 0.001: return"
Debounced(m) == clock - m.last_pulse_time < Debounce

\* "self.pulse_times = [t for t in self.pulse_times if t > cutoff_time]"
InWindow(pulse_times) ==
    SelectSeq(pulse_times, LAMBDA t : t > clock - FlowRateWindow)

\* "(pulses_per_second / self.pulses_per_liter) * 60", in ml per minute, for
\* n timestamps over time_span ms
FlowRateOf(n, time_span, pulses_per_liter) ==
    ((n - 1) * 60 * 1000 * 1000) \div (time_span * pulses_per_liter)

\* FlowMeter._pulse_detected for an edge the debounce accepts, up to the
\* callbacks
AcceptPulse(m) ==
    LET pulse_times == InWindow(Append(m.pulse_times, clock))
        time_span == pulse_times[Len(pulse_times)] - pulse_times[1]
    IN [m EXCEPT !.pulse_count = @ + 1,
                 !.last_pulse_time = clock,
                 !.pulse_times = pulse_times,
                 !.volume_total = VolumeOf(m.pulse_count + 1, m.pulses_per_liter),
                 !.flow_rate = IF Len(pulse_times) > 1 /\ time_span > 0
                               THEN FlowRateOf(Len(pulse_times), time_span,
                                               m.pulses_per_liter)
                               ELSE @]

\* FlowMeter._pulse_detected: one raw edge
Edge ==
    /\ bench_log.edges < MaxEdges
    /\ meter' = IF Debounced(meter) THEN meter ELSE AcceptPulse(meter)
    /\ bench_log' = [bench_log EXCEPT
                       !.edges = @ + 1,
                       !.callbacks = IF Debounced(meter) THEN @ ELSE @ + 1,
                       !.op = "edge",
                       !.result = IF Debounced(meter) THEN "dropped" ELSE "counted"]
    /\ UNCHANGED <<system, web, clock, calibrating, config_file>>

\* The test of calibrate dropped
CanCalibrateAlways(m) == TRUE

\* FlowMeter.calibrate: "if self.pulse_count > 0"
CanCalibrate(m) == m.pulse_count > 0

\* FlowMeter.calibrate: "self.pulse_count / known_volume_liters"
CalibratedFactor(pulse_count, known_volume) == (pulse_count * 1000) \div known_volume

\* calibrate_tap(known_volume), up to the first assignment of
\* FlowMeter.calibrate: without pulses the call goes on to save_calibration;
\* a known volume of 0 raises ZeroDivisionError, which nothing catches.
CalibrateTap(known_volume) ==
    /\ calibrating.pc = "idle"
    /\ bench_log.calls < MaxCalls
    /\ IF ~CanCalibrate(meter)
       THEN /\ calibrating' = [pc |-> "save", known_volume |-> known_volume]
            /\ bench_log' = [bench_log EXCEPT !.calls = @ + 1, !.op = "calibrate",
                                              !.result = "no_pulses"]
            /\ UNCHANGED meter
       ELSE IF known_volume = 0
       THEN /\ bench_log' = [bench_log EXCEPT !.calls = @ + 1, !.op = "calibrate",
                                              !.result = "ZeroDivisionError"]
            /\ UNCHANGED <<meter, calibrating>>
       ELSE /\ meter' = [meter EXCEPT !.pulses_per_liter =
                           CalibratedFactor(meter.pulse_count, known_volume)]
            /\ calibrating' = [pc |-> "set_volume", known_volume |-> known_volume]
            /\ bench_log' = [bench_log EXCEPT !.calls = @ + 1, !.op = "calibrate",
                                              !.result = "factor_set"]
    /\ UNCHANGED <<system, web, clock, config_file>>

\* FlowMeter.calibrate: "self.volume_total = known_volume_liters"
CalibrateSetVolume ==
    /\ calibrating.pc = "set_volume"
    /\ meter' = [meter EXCEPT !.volume_total = calibrating.known_volume]
    /\ calibrating' = [calibrating EXCEPT !.pc = "save"]
    /\ bench_log' = [bench_log EXCEPT !.op = "set_volume", !.result = "none"]
    /\ UNCHANGED <<system, web, clock, config_file>>

\* calibrate_tap: FlowMeter.save_calibration
SaveCalibration ==
    /\ calibrating.pc = "save"
    /\ config_file' = meter.pulses_per_liter
    /\ calibrating' = NotCalibrating
    /\ bench_log' = [bench_log EXCEPT !.op = "save", !.result = "none"]
    /\ UNCHANGED <<system, web, clock, meter>>

\* A reset of pulse_count and volume_total alone
ResetCountersOnly(m) ==
    [m EXCEPT !.pulse_count = 0, !.volume_total = 0]

\* FlowMeter.reset, through reset_tap_volume
Reset(m) ==
    [m EXCEPT !.pulse_count = 0, !.volume_total = 0, !.flow_rate = 0,
              !.pulse_times = <<>>]

ResetTapVolume ==
    /\ calibrating.pc = "idle"
    /\ bench_log.calls < MaxCalls
    /\ meter' = Reset(meter)
    /\ bench_log' = [bench_log EXCEPT !.calls = @ + 1, !.op = "reset",
                                      !.result = "none"]
    /\ UNCHANGED <<system, web, clock, calibrating, config_file>>

\* setup_tap after a restart of the process: a new FlowMeter with the
\* configured factor, then load_calibration.
SetupMeter ==
    /\ calibrating.pc = "idle"
    /\ bench_log.calls < MaxCalls
    /\ meter' = LoadCalibration(NewBenchMeter(TapConfigs[BenchTap].pulses_per_liter))
    /\ bench_log' = [bench_log EXCEPT !.calls = @ + 1, !.op = "setup",
                                      !.result = "none"]
    /\ UNCHANGED <<system, web, clock, calibrating, config_file>>

\* ---------------------------------------------------------- specifications
\* The flow process: pulses, the pour monitors and the endpoint that serves
\* their commits, and the clock.
FlowNext ==
    \/ Tick
    \/ StartAll
    \/ \E t \in Taps : PulseDetected(t)
    \/ \E t \in Taps : OnVolumeChange(t)
    \/ \E t \in Taps : ResetPourTimeout(t)
    \/ \E t \in Taps : MonitorCheck(t)
    \/ \E t \in Taps : ApiPost(t)
    \/ \E t \in Taps : ApiCommit(t)
    \/ \E t \in Taps : DbUpdateQuery(t)
    \/ \E t \in Taps : DbUpdateCommit(t)
    \/ \E t \in Taps : DbLogPourEvent(t)
    \/ \E t \in Taps : MonitorReset(t)

\* The keg administration of the web application.
AdminNext == \E k \in KegIds : TakeKegOffTap(k)

\* The coordinator's start and stop calls.
LifecycleNext ==
    \/ StopAll
    \/ \E t \in Taps : StartTap(t)
    \/ \E t \in Taps : StopTap(t)
    \/ \E t \in Taps : MonitorExit(t)

\* Another client of the keg store.
ClientNext ==
    \/ \E op \in {"flow_update", "subtract_volume"}, k \in KegIds \cup {MissingKegId},
          v \in ClientVolumes : ClientCall(op, k, v)
    \/ ClientCommit

\* Requests that tap a keg, and the request that finishes one.
TapNext ==
    \/ \E w \in Workers, k \in KegIds, p \in Taps,
          route \in {"tap_new_with_position", "tap_previous_with_position"} :
          TapWithPosition(w, route, k, p)
    \/ \E w \in Workers, k \in KegIds, route \in {"tap_new_keg", "tap_previous_keg"} :
          TapNextAvailable(w, route, k)
    \/ \E w \in Workers : TapAssign(w)
    \/ \E k \in KegIds : FinishKeg(k)

\* Keg 2 is not tapped, so that start_all configures tap 1 alone.
InitOneTap == InitWith({1})

Next == FlowNext \/ AdminNext

\* The flow process with both taps configured, and the keg administration.
Spec == Init /\ [][Next]_vars

NextStore == FlowNext \/ AdminNext \/ ClientNext

\* One tap of the flow process together with another client of the store.
SpecStore == InitOneTap /\ [][NextStore]_vars

NextLifecycle == FlowNext \/ AdminNext \/ LifecycleNext

\* One tap of the flow process and the coordinator's start and stop calls.
SpecLifecycle == InitOneTap /\ [][NextLifecycle]_vars

\* start_tap and stop_tap called on a tap whose monitor thread is alive.
RestartNext ==
    \/ \E t \in Taps : StartTapAgain(t)
    \/ \E t \in Taps : StopTap(t)
    \/ \E t \in Taps : MonitorExit(t)
    \/ \E t \in Taps : SecondCheck(t)
    \/ \E t \in Taps : SecondUpdateKeg(t)
    \/ \E t \in Taps : SecondReset(t)
    \/ \E t \in Taps : SecondExit(t)

NextRestart == FlowNext \/ AdminNext \/ RestartNext

\* One tap of the flow process with repeated start_tap and stop_tap calls.
SpecRestart == InitOneTap /\ [][NextRestart]_vars

NextReset == FlowNext \/ AdminNext \/ \E t \in Taps : ResetTapVolumeAt(t)

\* One tap of the flow process and a reset of its volume counter.
SpecReset == InitOneTap /\ [][NextReset]_vars

NextStopAll == FlowNext \/ LifecycleNext

\* Both taps of the flow process and the coordinator's start and stop calls.
SpecStopAll == Init /\ [][NextStopAll]_vars

\* Clients of the store that commit any volume the operations accept.
CommitNext ==
    \/ \E op \in {"flow_update", "subtract_volume"}, k \in CommitKegs,
          v \in CommitVolumes : ClientCall(op, k, v)
    \/ ClientCommit

NextCommit == FlowNext \/ CommitNext

\* One tap of the flow process together with clients that commit any volume.
SpecCommit == InitOneTap /\ [][NextCommit]_vars

NextTaps == AdminNext \/ TapNext

\* The keg administration of the web application alone, its requests served
\* by two workers at a time.
SpecTaps == InitOneTap /\ [][NextTaps]_vars

\* The tap requests one after the other: one worker serves them.
RetapNext ==
    \/ \E k \in KegIds, p \in Taps :
          TapWithPosition(RetapWorker, "tap_new_with_position", k, p)
    \/ TapAssign(RetapWorker)

NextRetap == FlowNext \/ AdminNext \/ RetapNext

\* One tap of the flow process while the web application changes which keg
\* is on which tap.
SpecRetap == InitOneTap /\ [][NextRetap]_vars

NextSetup ==
    \/ AdminNext
    \/ RetapNext
    \/ \E k \in KegIds : FinishKeg(k)
    \/ StartAll

\* start_all after the web application has changed which keg is on which tap.
SpecSetup == InitOneTap /\ [][NextSetup]_vars

\* The threads are daemon threads the interpreter keeps scheduling: a thread
\* that can take its next step eventually takes it, and time passes.
ThreadsRun ==
    /\ WF_vars(Tick)
    /\ \A t \in Taps :
          /\ WF_vars(OnVolumeChange(t) \/ ResetPourTimeout(t))
          /\ WF_vars(MonitorCheck(t) \/ ApiPost(t) \/ ApiCommit(t) \/ DbUpdateQuery(t)
                        \/ DbUpdateCommit(t) \/ DbLogPourEvent(t) \/ MonitorReset(t))

\* One tap of the flow process, never stopped, with its threads scheduled fairly.
SpecLive == InitOneTap /\ [][Next]_vars /\ ThreadsRun

\* The progress entries of both objects and the calls that read them.
NextPolls ==
    \/ Tick
    \/ \E k \in KegIds, v \in ProgressVolumes : ActivePourCallback(k, v)
    \/ FlowSystemGetActivePours
    \/ \E k \in KegIds : StartPour(k)
    \/ \E k \in KegIds, v \in ProgressVolumes : UpdatePourVolume(k, v)
    \/ \E k \in KegIds : FinishPour(k)
    \/ VolumeTrackerGetActivePours

SpecPolls == Init /\ [][NextPolls]_vars

\* The VolumeTracker with its update thread, and the pollers of the web
\* application.
NextProgress ==
    \/ Tick
    \/ \E k \in KegIds : StartPour(k)
    \/ \E k \in KegIds, v \in ProgressVolumes : UpdatePourVolume(k, v)
    \/ \E k \in KegIds : FinishPour(k)
    \/ SendUpdatesToFlask
    \/ VolumeUpdate
    \/ PublisherStops
    \/ ActivePoursEndpoint

\* Time passes, the update thread runs while its process does, and the
\* pollers keep polling.
PollersPoll ==
    /\ WF_vars(Tick)
    /\ WF_vars(SendUpdatesToFlask \/ VolumeUpdate)
    /\ WF_vars(ActivePoursEndpoint)

SpecProgress == Init /\ [][NextProgress]_vars /\ PollersPoll

NextStartFaults ==
    \/ FlowNext
    \/ AdminNext
    \/ \E t \in Taps, fault \in {"setup_error", "start_error"} :
          StartAllOnHardware(t, fault)

\* Both taps of the flow process, started on hardware of which one tap may fail.
SpecStartFaults == Init /\ [][NextStartFaults]_vars

\* The flow meter of one tap on the bench: edges, calibrate_tap,
\* reset_tap_volume and the restart of the process.
NextMeter ==
    \/ ClockTick
    \/ Edge
    \/ \E v \in KnownVolumes : CalibrateTap(v)
    \/ CalibrateSetVolume
    \/ SaveCalibration
    \/ ResetTapVolume
    \/ SetupMeter

SpecMeter == Init /\ [][NextMeter]_vars

\* ------------------------------------------------------------------ claims
\* The pour monitor of tap t is between its decision and its reset.
Finalizing(t) ==
    monitor[t].pc \in {"update_keg", "api_commit", "db_update", "db_commit",
                       "db_log", "reset"}

\* The monitor of tap t takes a step.
MonitorSteps(t) == monitor'[t].pc # monitor[t].pc

KegIsTapped(k) == k \in DOMAIN kegs /\ kegs[k].status = "tapped"

PourEventOf(t) ==
    [keg_id |-> tracker[t].keg_id, volume_dispensed |-> monitor[t].volume_poured]

\* The PourEvents of tap t's keg and volume recorded since the monitor of t
\* decided to commit.
EventsSinceCommitStart(t) ==
    {i \in (commit_start[t].events + 1)..Len(pour_events) :
        pour_events[i] = PourEventOf(t)}

\* C1: when a session at or above the threshold has timed out and its commit
\* has returned (by the API or by the local fallback) against a keg that is
\* Tapped, exactly one PourEvent of the session's volume has been appended
\* and the keg's volume_remaining is the clamped difference.
C1_CommitOnEveryPath ==
    \A t \in Taps :
        ( /\ monitor[t].pc = "reset"
          /\ ReachesThreshold(monitor[t].volume_poured)
          /\ commit_start[t].tapped
          /\ KegIsTapped(tracker[t].keg_id) )
        => /\ Cardinality(EventsSinceCommitStart(t)) = 1
           /\ kegs[tracker[t].keg_id].volume_remaining
                = Max(0, commit_start[t].volume_remaining - monitor[t].volume_poured)

\* C2: a session that times out below the pour threshold goes from the
\* timeout check straight to the reset and back to Idle, and neither step
\* changes a keg or appends a PourEvent.
C2_BelowThresholdDiscarded ==
    [][\A t \in Taps :
         /\ ( /\ monitor[t].pc = "loop"
              /\ monitor'[t].pc \notin {"loop", "exited"}
              /\ monitor'[t].volume_poured < PourThresholdMl )
            => (monitor'[t].pc = "reset" /\ store' = store)
         /\ ( /\ monitor[t].pc = "reset"
              /\ MonitorSteps(t)
              /\ monitor[t].volume_poured < PourThresholdMl )
            => /\ monitor'[t].pc = "loop"
               /\ ~tracker'[t].is_pouring
               /\ store' = store]_vars

\* A 25 ml session was discarded: the tracker is Idle again, its volume is
\* logged, and the store is as it started.
C2_Witness ==
    \E t \in Taps :
        /\ monitor[t].pc = "loop"
        /\ ~tracker[t].is_pouring
        /\ tracker[t].last_logged_volume > 0
        /\ tracker[t].last_logged_volume < PourThresholdMl
        /\ pour_events = <<>>
        /\ \A k \in KegIds : kegs[k].volume_remaining = InitialVolume[k]

\* C3: the step that ends the local fallback of a commit whose keg was found
\* Tapped has the PourEvent of the pour in the log, and a fallback that found
\* no keg appends none.
C3_FallbackAtomic ==
    [][\A t \in Taps :
         (monitor[t].pc = "db_log" /\ monitor'[t].pc = "reset")
         => pour_events' = IF monitor[t].keg # NoRow
                           THEN Append(pour_events, PourEventOf(t))
                           ELSE pour_events]_vars

\* C4: a commit whose lookup meets a keg that is missing or not Tapped changes
\* no keg and appends no PourEvent, on the API path, on the fallback path and
\* for subtract_volume, and nothing of it stays pending.
C4_UntappedCommitDropped ==
    [][/\ \A t \in Taps :
            /\ ( /\ monitor[t].pc = "update_keg" /\ MonitorSteps(t)
                 /\ ~KegIsTapped(tracker[t].keg_id) )
               => (store' = store /\ monitor'[t].pc = "db_update")
            /\ ( /\ monitor[t].pc = "db_update" /\ MonitorSteps(t)
                 /\ ~KegIsTapped(tracker[t].keg_id) )
               => (store' = store /\ monitor'[t].pc = "db_log")
            /\ ( /\ monitor[t].pc = "db_log" /\ MonitorSteps(t)
                 /\ monitor[t].keg = NoRow )
               => (store' = store /\ monitor'[t].pc = "reset")
       /\ (client'.calls # client.calls /\ client'.pc = "idle") => store' = store
       /\ (client'.calls # client.calls /\ client'.pc = "commit")
            => KegIsTapped(client'.keg_id)]_vars

\* The monitor committed a pour against a keg that is off tap: both lookups
\* found nothing, the keg has its volume and the log is empty. And a client's
\* call against a missing keg came back.
C4_Witness ==
    /\ \E t \in Taps :
        /\ monitor[t].pc = "reset"
        /\ ReachesThreshold(monitor[t].volume_poured)
        /\ monitor[t].keg = NoRow
        /\ kegs[tracker[t].keg_id].status = "off_tap"
        /\ kegs[tracker[t].keg_id].volume_remaining = InitialVolume[tracker[t].keg_id]
    /\ pour_events = <<>>
    /\ client.calls > 0

\* C5: a monitor thread that stop_tracking has ended leaves no session that
\* was Active when the tap was stopped: the session was committed or discarded.
C5_StopFinalizes ==
    \A t \in Taps : monitor[t].pc = "exited" => ~stopped_active[t]

\* C6: from its read of the session to its reset the timeout checker works on
\* the session as it is: still pouring, still timed out, and with the volume
\* it read.
C6_ConsistentSnapshot ==
    \A t \in Taps :
        Finalizing(t)
        => /\ tracker[t].is_pouring
           /\ TimedOut(tracker[t])
           /\ flow_meter[t].volume_total - tracker[t].last_logged_volume
                = monitor[t].volume_poured

\* C7: every commit writes the clamped difference of the keg's volume at the
\* time of the write and its own volume, so that no commit made meanwhile is
\* lost.
C7_NoLostUpdate ==
    [][/\ \A t \in Taps :
            (monitor[t].pc \in {"api_commit", "db_commit"} /\ MonitorSteps(t))
            => kegs'[tracker[t].keg_id].volume_remaining
                 = Max(0, kegs[tracker[t].keg_id].volume_remaining
                          - monitor[t].volume_poured)
       /\ (client.pc = "commit" /\ client'.pc = "idle")
            => kegs'[client.keg_id].volume_remaining
                 = Max(0, kegs[client.keg_id].volume_remaining - client.volume)]_vars

\* C8: after stop_all on a running system every configured tap's tracker is
\* stopped, every flow meter has released its edge subscription,
\* flow_trackers is empty and running is false.
C8_StopAllStopsEveryTap ==
    last_call.op = "stop_all"
    => /\ flow_trackers = {}
       /\ ~running
       /\ \A t \in Taps :
            monitor[t].pc # "none"
            => /\ tracker[t].stop_monitoring
               /\ ~flow_meter[t].is_monitoring
               /\ flow_meter[t].subscriptions = 0

\* C9: after the stop of a tap's flow meter (stop_tap's cleanup) the meter is
\* not monitoring, holds no edge subscription, and the call has not failed.
C9_StopReleases ==
    last_call.op = "stop_tap"
    => /\ last_call.result = "none"
       /\ ~flow_meter[last_call.tap].is_monitoring
       /\ flow_meter[last_call.tap].subscriptions = 0

\* C10: start_tracking's call of start_monitoring on a flow meter that is
\* monitoring leaves is_monitoring, start_time, pulse_count, volume_total and
\* the edge subscriptions of the meter as they are.
C10_StartAgainIsNoOp ==
    [][\A t \in Taps :
         ( /\ last_call' # last_call
           /\ last_call'.op = "start_tap"
           /\ last_call'.tap = t
           /\ flow_meter[t].is_monitoring )
         => flow_meter'[t] = flow_meter[t]]_vars

\* start_tap met a meter that was monitoring, later than the meter's start
\* and after it had counted a pulse.
C10_Witness ==
    \E t \in Taps :
        /\ last_call = [op |-> "start_tap", tap |-> t, result |-> "already_monitoring"]
        /\ flow_meter[t].is_monitoring
        /\ flow_meter[t].subscriptions = 1
        /\ flow_meter[t].start_time < tracker[t].last_flow_time
        /\ flow_meter[t].pulse_count > 0

\* The step is a raw edge / a call of calibrate_tap / of reset_tap_volume.
EdgeStep == bench_log'.edges # bench_log.edges
CallStep(op) == bench_log'.calls # bench_log.calls /\ bench_log'.op = op

\* C11: an edge less than the debounce interval after the last accepted edge
\* changes nothing of the meter and fires no callback; every other edge
\* raises pulse_count by exactly one; pulse_count never exceeds the raw edges.
C11_Debounce ==
    /\ [](meter.pulse_count <= bench_log.edges)
    /\ [][EdgeStep =>
            IF clock - meter.last_pulse_time < Debounce
            THEN /\ meter' = meter
                 /\ bench_log'.callbacks = bench_log.callbacks
            ELSE /\ meter'.pulse_count = meter.pulse_count + 1
                 /\ bench_log'.callbacks = bench_log.callbacks + 1]_vars

\* The last edge came within the debounce interval of a counted pulse and was
\* dropped: the meter has fewer pulses than edges.
C11_Witness ==
    /\ bench_log.op = "edge"
    /\ bench_log.result = "dropped"
    /\ meter.last_pulse_time = clock
    /\ meter.pulse_count > 0
    /\ meter.pulse_count < bench_log.edges

\* C12: whenever no calibrate call stands between its two assignments,
\* volume_total is pulse_count / pulses_per_liter.
C12_VolumeIdentity ==
    calibrating.pc # "set_volume"
    => meter.volume_total = (meter.pulse_count * 1000) \div meter.pulses_per_liter

\* C13: no edge and no step of calibrate lowers volume_total, and
\* volume_total is never negative.
C13_VolumeMonotonic ==
    [][bench_log'.op \in {"edge", "calibrate", "set_volume", "save"}
         => /\ meter'.volume_total >= meter.volume_total
            /\ meter'.volume_total >= 0]_vars

\* C14: after an accepted pulse flow_rate is 0 when fewer than two timestamps
\* lie in the window, and else (count - 1) / time span, in volume per minute.
C14_FlowRate ==
    [][(EdgeStep /\ bench_log'.result = "counted")
         => LET times == meter'.pulse_times
            IN meter'.flow_rate =
                 IF Len(times) < 2
                 THEN 0
                 ELSE ((Len(times) - 1) * 60 * 1000 * 1000)
                        \div ((times[Len(times)] - times[1]) * meter'.pulses_per_liter)]_vars

\* C15: a call of calibrate on a meter without pulses leaves the meter as it
\* is, pulses_per_liter and volume_total included, and divides nothing: it
\* ends as refused whatever the known volume.
C15_CalibrateWithoutPulses ==
    [][(CallStep("calibrate") /\ meter.pulse_count = 0)
         => /\ meter' = meter
            /\ bench_log'.result = "no_pulses"]_vars

\* calibrate was called with the known volume 0 on a meter without pulses and
\* was refused.
C15_Witness ==
    /\ bench_log.op = "calibrate"
    /\ bench_log.result = "no_pulses"
    /\ calibrating.known_volume = 0
    /\ calibrating.pc = "save"
    /\ meter.pulse_count = 0
    /\ bench_log.edges > 0

\* C16: reset leaves pulse_count, volume_total and flow_rate at 0 and
\* pulse_times empty, and does not change pulses_per_liter.
C16_ResetKeepsCalibration ==
    [][CallStep("reset")
         => /\ meter'.pulse_count = 0
            /\ meter'.volume_total = 0
            /\ meter'.flow_rate = 0
            /\ meter'.pulse_times = <<>>
            /\ meter'.pulses_per_liter = meter.pulses_per_liter]_vars

\* reset followed a calibration: the meter is zeroed and its factor is the
\* calibrated one, not the configured one.
C16_Witness ==
    /\ bench_log.op = "reset"
    /\ meter.pulse_count = 0
    /\ meter.pulse_times = <<>>
    /\ config_file # NoFile
    /\ meter.pulses_per_liter = config_file
    /\ meter.pulses_per_liter # TapConfigs[BenchTap].pulses_per_liter

\* C17: pulses_per_liter is positive in every state and no call of calibrate
\* raises.
C17_FactorPositive ==
    /\ meter.pulses_per_liter > 0
    /\ bench_log.result # "ZeroDivisionError"

\* A commit writes a keg's volume: the monitor's endpoint or fallback commit
\* for tap t, or a client's commit.
MonitorWrites(t) ==
    monitor[t].pc \in {"api_commit", "db_commit"} /\ MonitorSteps(t)
ClientWrites == client.pc = "commit" /\ client'.pc = "idle"

\* C18: no keg's volume_remaining is ever negative, and a commit of at least
\* the volume it found in the keg leaves the keg at exactly 0.
C18_VolumeFloored ==
    /\ [](\A k \in KegIds : kegs[k].volume_remaining >= 0)
    /\ [][/\ \A t \in Taps :
               (MonitorWrites(t) /\ monitor[t].volume_poured >= monitor[t].keg)
               => kegs'[tracker[t].keg_id].volume_remaining = 0
          /\ (ClientWrites /\ client.volume >= client.keg)
               => kegs'[client.keg_id].volume_remaining = 0]_vars

\* A client's commit of 60 ml met the keg at 40 ml and left it at 0, with its
\* PourEvent.
C18_Witness ==
    /\ client.pc = "idle"
    /\ client.calls > 0
    /\ kegs[1].volume_remaining = 0
    /\ pour_events = <<[keg_id |-> 1, volume_dispensed |-> 60]>>

\* C19: no step of a commit raises a keg's volume_remaining.
C19_NeverIncreased ==
    [][\A k \in KegIds :
         kegs'[k].volume_remaining <= kegs[k].volume_remaining]_vars

\* C20: every PourEvent in the log has a volume_dispensed above 0.
C20_PositiveEvents ==
    \A i \in 1..Len(pour_events) : pour_events[i].volume_dispensed > 0

\* Worker w accepts a request of one of the routes in this step.
RequestArrives(w, routes) ==
    /\ tap_requests[w].pc = "idle"
    /\ tap_requests'[w].calls = tap_requests[w].calls + 1
    /\ tap_requests'[w].route \in routes

\* C21: in every reachable state at most one Tapped keg holds any given tap
\* position, whatever requests to tap, untap and finish kegs are served and
\* however two workers interleave them.
C21_OneTappedKegPerPosition ==
    \A p \in TapPositions : Cardinality(TappedKegsAt(p)) <= 1

\* C22: a request to tap a keg at a position that a Tapped keg holds is
\* refused: it ends at its check, and no row of the kegs table changes, so
\* that the requesting keg keeps its status and tap_position and the keg
\* that holds the position keeps its assignment.
C22_OccupiedPositionRefused ==
    [][\A w \in Workers :
         (/\ RequestArrives(w, {"tap_new_with_position", "tap_previous_with_position"})
          /\ TappedKegsAt(tap_requests'[w].tap_position) # {})
         => /\ tap_requests'[w].pc = "idle"
            /\ tap_requests'[w].result = "refused"
            /\ kegs' = kegs]_vars

\* A request for the position another keg holds was refused; the requesting
\* keg is not Tapped and the holder still holds the position.
C22_Witness ==
    \E w \in Workers :
        /\ tap_requests[w].result = "refused"
        /\ kegs[tap_requests[w].keg_id].status # "tapped"
        /\ \E k \in KegIds \ {tap_requests[w].keg_id} :
               TappedKegsAt(tap_requests[w].tap_position) = {k}

\* C23: setup_tap(t, ...) gives tap t no FlowMeter, no tracker and no
\* flow_trackers entry when no Tapped keg holds position t, and registers a
\* tracker, for the keg that holds the position, only when there is one.
C23_SetupNeedsTappedKeg ==
    [][(~running /\ running') =>
         \A t \in Taps :
            IF \E k \in KegIds : kegs[k].status = "tapped" /\ kegs[k].tap_position = t
            THEN /\ t \in flow_trackers'
                 /\ kegs[tracker'[t].keg_id].status = "tapped"
                 /\ kegs[tracker'[t].keg_id].tap_position = t
            ELSE /\ t \notin flow_trackers'
                 /\ flow_meter'[t] = flow_meter[t]
                 /\ tracker'[t] = tracker[t]
                 /\ monitor'[t] = monitor[t]]_vars

\* start_all ran after keg 1 was finished: the keg still names its position
\* but is not Tapped, and no tap was configured.
C23_Witness ==
    /\ running
    /\ flow_trackers = {}
    /\ \E k \in KegIds : kegs[k].status = "off_tap" /\ kegs[k].tap_position \in Taps
    /\ \A t \in Taps : monitor[t].pc = "none" /\ ~flow_meter[t].is_monitoring

\* The monitor of tap t looks its keg up (the API request or the fallback's
\* query) or writes it.
MonitorAddressesKeg(t) ==
    /\ monitor[t].pc \in {"update_keg", "api_commit", "db_update", "db_commit"}
    /\ MonitorSteps(t)

\* C24: every pour committed from tap t is applied to the keg that is Tapped
\* at position t at the time of the commit, also after the keg that was on
\* the tap was taken off and another keg was tapped there while the flow
\* system kept running: whenever the monitor of tap t looks up or writes a
\* keg and some keg is Tapped at t, that keg is the one it addresses.
C24_CommitFollowsTapAssignment ==
    [][\A t \in Taps :
         (MonitorAddressesKeg(t) /\ TappedKegsAt(t) # {})
         => tracker[t].keg_id \in TappedKegsAt(t)]_vars

\* The callback thread or the monitor of tap t takes a step.
TapSteps(t) ==
    /\ running' = running
    /\ gpio'[t] # gpio[t] \/ monitor'[t] # monitor[t]

\* The keg that is on tap t when the system starts: keg t.
OwnKeg(t) == t

\* The PourEvents of keg k among those appended, this step included, since
\* the monitor of tap t decided to commit.
OwnEventsAfterStep(t, k) ==
    {i \in (commit_start[t].events + 1) .. Len(pour_events') :
        pour_events'[i].keg_id = k}

ActiveWithoutPulses(t) ==
    /\ tracker[t].is_pouring
    /\ ~tracker[t].stop_monitoring
    /\ gpio[t].pc = "idle"
    /\ SumPulses(Taps) = MaxPulses
    /\ tracker[t].last_flow_time + TickSeconds <= MaxTime

\* C26: an Active session that receives no further pulses is eventually
\* finalized and its tracker is Idle again (is_pouring false), when the
\* tracker is running and its threads are scheduled fairly.
C26_ActiveSessionEnds ==
    \A t \in Taps : ActiveWithoutPulses(t) ~> ~tracker[t].is_pouring

\* A session that got all its pulses was finalized by the timeout: the
\* tracker is Idle, the monitor is back in its loop and the session's volume
\* is accounted for.
C26_Witness ==
    \E t \in Taps :
        /\ SumPulses(Taps) = MaxPulses
        /\ ~tracker[t].is_pouring
        /\ monitor[t].pc = "loop"
        /\ flow_meter[t].pulse_count > 0
        /\ tracker[t].last_logged_volume = flow_meter[t].volume_total
        /\ now > tracker[t].last_flow_time + PourTimeout

\* The order in which _monitor_pour_events and _update_keg_volume_api may
\* pass their statements for one finalized pour: the remote attempt
\* (update_keg, api_commit) once, the local fallback (db_update, db_commit,
\* db_log) once and only after the remote attempt, then the reset.
CommitOrder ==
    {<<"none", "loop">>, <<"loop", "update_keg">>, <<"loop", "reset">>,
     <<"update_keg", "api_commit">>, <<"update_keg", "db_update">>,
     <<"api_commit", "reset">>, <<"api_commit", "db_update">>,
     <<"db_update", "db_commit">>, <<"db_update", "db_log">>,
     <<"db_commit", "db_log">>, <<"db_log", "reset">>, <<"reset", "loop">>}

\* C27: a finalized pour gets at most one remote commit attempt and, only
\* when that attempt did not return 200, at most one local fallback attempt;
\* whatever the outcome, the reset that follows marks the pour's volume as
\* logged, so that a pour that failed on both paths is not retried and is
\* in no later commit.
C27_NoRetry ==
    [][\A t \in Taps :
         MonitorSteps(t) =>
           /\ <<monitor[t].pc, monitor'[t].pc>> \in CommitOrder
           /\ monitor[t].pc = "reset"
              => /\ ~tracker'[t].is_pouring
                 /\ tracker'[t].last_logged_volume = flow_meter[t].volume_total
           /\ monitor'[t].pc = "update_keg"
              => monitor'[t].volume_poured =
                    flow_meter[t].volume_total - tracker[t].last_logged_volume]_vars

\* A pour at or above the threshold failed on both paths (its keg was off
\* tap): the monitor is back in its loop, the tracker is Idle, the volume
\* counts as logged, and neither the keg nor the pour_events table changed.
C27_Witness ==
    \E t \in Taps :
        /\ monitor[t].pc = "loop"
        /\ commit_start[t] # NoCommit
        /\ monitor[t].volume_poured >= PourThresholdMl
        /\ ~tracker[t].is_pouring
        /\ tracker[t].last_logged_volume = flow_meter[t].volume_total
        /\ pour_events = <<>>
        /\ kegs[tracker[t].keg_id].volume_remaining = InitialVolume[tracker[t].keg_id]

\* The progress entries one of the two objects keeps, and its staleness window.
EntriesOf(side) ==
    IF side = "flow_system" THEN active_pours ELSE volume_tracker.active_pours
WindowOf(side) ==
    IF side = "flow_system" THEN FlowSystemWindow ELSE VolumeTrackerWindow

\* get_active_pours of that object returns in this step.
GetActivePoursReturns(side) ==
    /\ reports'[side].op = "get_active_pours"
    /\ reports'[side] # reports[side]

\* C28: a progress entry that got no update for longer than the staleness
\* window is listed in completed_pours by the get_active_pours call that
\* finds it and is removed by that call; an entry is listed as completed at
\* most once, and a keg is listed as active only through an entry that was
\* never listed as completed, that is, after a new pour on that keg started.
C28_StaleEntryCompletedOnce ==
    /\ [](\A side \in ProgressSides : \A k \in KegIds :
             reports[side].completed[k] <= 1)
    /\ [][\A side \in ProgressSides :
            GetActivePoursReturns(side) =>
              \A k \in KegIds :
                 LET stale == /\ k \in DOMAIN EntriesOf(side)
                              /\ now - EntriesOf(side)[k].last_update > WindowOf(side)
                 IN /\ stale => /\ k \in reports'[side].returned.completed_pours
                                /\ k \notin reports'[side].returned.active_pours
                                /\ k \notin DOMAIN EntriesOf(side)'
                    /\ k \in reports'[side].returned.completed_pours
                       => stale /\ reports'[side].completed[k] = 1
                    /\ k \in reports'[side].returned.active_pours
                       => /\ k \in DOMAIN EntriesOf(side)
                          /\ ~stale
                          /\ reports[side].completed[k] = 0]_vars

\* An entry was listed as completed by one call and is gone, and the call
\* after it listed nothing as completed.
C28_Witness ==
    \E side \in ProgressSides : \E k \in KegIds :
        /\ reports[side].completed[k] = 1
        /\ k \notin DOMAIN EntriesOf(side)
        /\ reports[side].op = "get_active_pours"
        /\ reports[side].returned.completed_pours = {}

\* C29: when the publishing process has stopped while a pour is served as
\* active, the pollers of /api/active-pours eventually stop seeing that pour
\* as active: a payload received more than the staleness window ago (the
\* longer of the two windows) is not served as an active pour for ever.
C29_StalePayloadExpires ==
    \A k \in KegIds :
        (/\ ~volume_tracker.running
         /\ k \in poll_response.pours.active_pours
         /\ now - latest_volume_data.received > FlowSystemWindow)
        ~> (k \notin poll_response.pours.active_pours)

\* C30: calibrate_tap persists the calibration, so that a later setup_tap
\* (after a restart) yields a flow meter with the calibrated
\* pulses_per_liter rather than the configured default. Whenever no
\* calibrate_tap call is in progress, the tap's file, once written, holds the
\* meter's factor, and a meter without a file has the configured factor; and
\* the meter that setup_tap builds starts with no pulses and with the factor
\* the meter had before.
C30_CalibrationPersisted ==
    /\ [](calibrating.pc = "idle"
          => meter.pulses_per_liter =
                IF config_file = NoFile
                THEN TapConfigs[BenchTap].pulses_per_liter
                ELSE config_file)
    /\ [][CallStep("setup")
          => /\ meter'.pulses_per_liter = meter.pulses_per_liter
             /\ meter'.pulse_count = 0]_vars

\* setup_tap ran after a calibration with pulses: the new meter has the
\* calibrated factor of the file, which is not the configured one.
C30_Witness ==
    /\ bench_log.op = "setup"
    /\ config_file # NoFile
    /\ config_file # TapConfigs[BenchTap].pulses_per_liter
    /\ meter.pulses_per_liter = config_file
    /\ meter.pulse_count = 0

\* start_all is called in this step.
StartAllStep == last_call.op # "start_all" /\ last_call'.op = "start_all"

\* C31: in start_all, a failure while setting up or starting one tap (no keg
\* at the position, an error of the hardware setup, an error raised when its
\* monitoring is started) does not keep the other configured taps from being
\* set up and started, and the system ends with running = TRUE.
C31_StartAllContinues ==
    [][StartAllStep =>
         /\ running'
         /\ \A t \in Taps :
               (TappedKegsAt(t) # {} /\ last_call'.tap # t)
               => /\ t \in flow_trackers'
                  /\ flow_meter'[t].is_monitoring
                  /\ monitor'[t].pc = "loop"]_vars

\* The callback thread of tap t runs the first / the second part of
\* _on_volume_change in this step.
NotificationBegins(t) ==
    gpio[t].pc = "on_volume_change" /\ gpio'[t].pc = "reset_timeout"
NotificationEnds(t) ==
    gpio[t].pc = "reset_timeout" /\ gpio'[t].pc = "idle"

\* C32: the tracker of a tap is a machine of two states that starts Idle. A
\* volume notification in Idle makes it Active and records pour_start_time;
\* a notification in Active leaves it Active and changes nothing but the time
\* of the last activity; only the timeout checker's reset makes an Active
\* tracker Idle. is_pouring being one flag of the one tracker of the tap,
\* the tap has at most one session at a time.
C32_TwoStateTracker ==
    [][\A t \in Taps :
         /\ (t \notin flow_trackers /\ t \in flow_trackers')
            => ~tracker'[t].is_pouring
         /\ (~tracker[t].is_pouring /\ tracker'[t].is_pouring)
            => /\ NotificationBegins(t)
               /\ tracker'[t].pour_start_time = now
         /\ (tracker[t].is_pouring /\ ~tracker'[t].is_pouring)
            => monitor[t].pc = "reset" /\ monitor'[t].pc = "loop"
         /\ (tracker[t].is_pouring /\ NotificationBegins(t))
            => tracker'[t] = tracker[t]
         /\ NotificationEnds(t)
            => tracker'[t] = [tracker[t] EXCEPT !.last_flow_time = now]]_vars

\* An Active session got a second notification later than its first: it is
\* the same session, begun at the first and last active at the second.
C32_Witness ==
    \E t \in Taps :
        /\ tracker[t].is_pouring
        /\ gpio[t].pc = "idle"
        /\ flow_meter[t].pulse_count = 2
        /\ tracker[t].pour_start_time >= 0
        /\ tracker[t].pour_start_time < tracker[t].last_flow_time

\* The monitor of tap t finds the session timed out and decides.
TimeoutDecision(t) ==
    monitor[t].pc = "loop" /\ monitor'[t].pc \in {"update_keg", "reset"}

\* C33 as stated: at timeout a session is committed only if its accumulated
\* volume is strictly above the pour threshold.
C33_CommittedOnlyAboveThreshold ==
    [][\A t \in Taps :
         (TimeoutDecision(t) /\ monitor'[t].pc = "update_keg")
         => monitor'[t].volume_poured > PourThresholdMl]_vars

\* C33: at timeout a session is committed exactly when its accumulated
\* volume (volume_total less last_logged_volume) is at least the pour
\* threshold; a session of exactly the threshold is committed.
C33_CommittedFromThreshold ==
    [][\A t \in Taps :
         TimeoutDecision(t)
         => /\ monitor'[t].volume_poured
                 = flow_meter[t].volume_total - tracker[t].last_logged_volume
            /\ (monitor'[t].pc = "update_keg")
                 <=> (monitor'[t].volume_poured >= PourThresholdMl)]_vars

\* The monitor has decided to commit a session of exactly the threshold.
C33_Witness ==
    \E t \in Taps :
        /\ monitor[t].pc = "update_keg"
        /\ monitor[t].volume_poured = PourThresholdMl

\* The volume the session of tap t has accumulated so far.
SessionVolume(t) == flow_meter[t].volume_total - tracker[t].last_logged_volume

\* The pulse handler of tap t is between two pulses of an Active session that
\* no timeout check has taken up.
ActiveBetweenPulses(t) ==
    /\ t \in flow_trackers
    /\ tracker[t].is_pouring
    /\ gpio[t].pc = "idle"
    /\ monitor[t].pc = "loop"
    /\ SessionVolume(t) > 0

\* C34: while a session is Active, the total_volume published for its keg in
\* active_pours equals the volume the session has accumulated so far.
C34_ProgressIsSessionVolume ==
    \A t \in Taps :
        ActiveBetweenPulses(t)
        => /\ tracker[t].keg_id \in DOMAIN active_pours
           /\ active_pours[tracker[t].keg_id].total_volume = SessionVolume(t)

\* The monitor of tap t ends a finalization: "self.is_pouring = False;
\* self.last_logged_volume = self.flow_meter.volume_total".
FinalizationEnds(t) == monitor[t].pc = "reset" /\ monitor'[t].pc = "loop"

\* C35: volume conservation per tap. The volume a finalization writes off
\* (the advance of last_logged_volume) is the volume of the session outcome
\* it committed or discarded, so that the outcomes and the current session
\* (volume_total less last_logged_volume) add up to volume_total.
C35_VolumeConserved ==
    [][\A t \in Taps :
         FinalizationEnds(t)
         => tracker'[t].last_logged_volume - tracker[t].last_logged_volume
              = monitor[t].volume_poured]_vars

\* C36: a session is finalized only after a full timeout without a pulse.
\* Every pulse of a session is notified at or after its pour_start_time, so
\* at the timeout decision more than the pour timeout has passed since then.
C36_FinalizedAfterFullTimeout ==
    [][\A t \in Taps :
         TimeoutDecision(t) => (now - tracker[t].pour_start_time) > PourTimeout]_vars

\* A monitor thread in this position has not returned.
Alive(pc) == pc \notin {"none", "exited"}

\* A monitor thread in this position is in update_keg_callback.
InUpdateKegCallback(pc) ==
    pc \in {"update_keg", "api_commit", "db_update", "db_commit"}

\* C37: whatever start_tap and stop_tap calls a tracker has seen, at most one
\* of its monitor threads is alive, and no two threads are in
\* update_keg_callback for one session.
C37_OneTimeoutChecker ==
    \A t \in Taps :
        /\ ~(Alive(monitor[t].pc) /\ Alive(monitor[t].second.pc))
        /\ ~( /\ InUpdateKegCallback(monitor[t].pc)
              /\ InUpdateKegCallback(monitor[t].second.pc) )

\* reset_tap_volume(t) is called while tap t is at rest: no session, no pulse
\* being handled, no finalization in progress.
ResetAtRest(t) ==
    /\ last_call.op # "reset_tap_volume"
    /\ last_call'.op = "reset_tap_volume" /\ last_call'.tap = t
    /\ ~tracker[t].is_pouring
    /\ gpio[t].pc = "idle"
    /\ monitor[t].pc = "loop"

\* C38: after reset_tap_volume(t) the next pour of tap t is measured from
\* zero: the reset leaves no volume between the meter and the tracker's
\* baseline, whatever the meter had counted before, so that the volume the
\* next timeout decides on is the volume of the pulses since the reset.
C38_MeasuredFromZero ==
    [][\A t \in Taps :
         ResetAtRest(t)
         => flow_meter'[t].volume_total - tracker'[t].last_logged_volume = 0]_vars

\* C39: when the monitor ends the finalization of a session (committed or
\* discarded), the coordinator holds no progress entry for the keg of that
\* tap any more, so that the next session of the keg is published from zero
\* without a call of get_active_pours in between.
C39_ProgressClearedAtFinalization ==
    [][\A t \in Taps :
         FinalizationEnds(t) => tracker[t].keg_id \notin DOMAIN active_pours']_vars

====
